---------------------------- MODULE Spec2Model ----------------------------
(***************************************************************************)
(* Model of skills/nano-banana-pro/scripts/generate_image.py: one run of   *)
(* the command-line image generator, from the arming of the 60 s watchdog  *)
(* to the end of the process.                                              *)
(*                                                                         *)
(* Environment assumptions of the model: the output path is writable       *)
(* (mkdir and a save of a well-formed image succeed); every step of the    *)
(* program may take time, so the watchdog can fire between any two steps.  *)
(***************************************************************************)
EXTENDS Integers, Sequences, FiniteSets

\* ------------------------------------------------------------ constants

\* signal.alarm(60)
TIMEOUT == 60
\* len(input_images) > 14
MAX_INPUT_IMAGES == 14
\* quality = 95
START_QUALITY == 95
\* while quality >= 10
MIN_QUALITY == 10
\* quality -= 5
QUALITY_STEP == 5
\* 1024 * 1024
MB == 1048576

\* largest number of --input-image arguments explored
MaxInputs == 15

\* --max-size is a float number of megabytes; the model writes it in tenths
MAX_SIZE_DENOM == 10
\* default=10.0
DEFAULT_MAX_SIZE == 10 * MAX_SIZE_DENOM

\* ------------------------------------------------------------ value sets

\* Contents of an image, named by the size of their optimized PNG encoding.
PngSizes == <<104857, 104858, 1048576, 1048577, 20971520>>
Pixels == 1..Len(PngSizes)

\* A decoded (lazily opened) image: its contents, and whether the data
\* behind it decodes and can be written as PNG (a truncated stream or a
\* CMYK JPEG opens but raises at the first save).
Images == [pixels : Pixels, ok : BOOLEAN]
NoImage == [pixels |-> 0, ok |-> FALSE]

\* --input-image paths: how many, the first path that cannot be loaded
\* (0: none) and why (the file is missing / it is not an image).
InputArgs ==
    { [n |-> n, badAt |-> b, badKind |-> k] :
        n \in {0, MAX_INPUT_IMAGES, MaxInputs},
        b \in {0, 1, MAX_INPUT_IMAGES, MaxInputs},
        k \in {"missing", "notimage"} }

ValidInputArgs ==
    { a \in InputArgs : a.badAt <= a.n /\ (a.badAt = 0 => a.badKind = "missing") }

\* --max-size: argparse's float() accepts any finite number of megabytes
\* (written here in tenths) and also "nan" and "inf"
Finite(tenths) == [finite |-> TRUE, tenths |-> tenths]
NonFinite == [finite |-> FALSE, tenths |-> 0]
MaxSizes == {Finite(t) : t \in {-1, 0, 1, 10, DEFAULT_MAX_SIZE}} \cup {NonFinite}

VARIABLES
    argApiKey,      \* --api-key given and non-empty
    envApiKey,      \* GEMINI_API_KEY set and non-empty
    inputArgs,      \* args.input_images
    compress,       \* args.compress
    maxSize,        \* args.max_size
    pc,             \* position of the process
    clock,          \* seconds since signal.alarm(60)
    inputImages,    \* len(input_images) in main (0: None)
    remoteCalls,    \* calls of client.models.generate_images
    willReturn,     \* whether the remote call in flight ever returns
    outcome,        \* how the remote call ended
    raised,         \* where the Exception that main's try caught was raised
    image,          \* main's / compress_image's image
    quality,        \* compress_image's quality
    encodes,        \* image.save(buffer, ...) calls of the current compress_image
    history,        \* one record per returned compress_image call
    outFile,        \* what is at output_path
    writes,         \* completed saves to output_path
    stdout,         \* lines printed to stdout
    stderr,         \* lines printed to stderr
    exitStatus,     \* process exit status (-1: running)
    exitCause       \* "return", "sysexit", "traceback", "timeout"

args == <<argApiKey, envApiKey, inputArgs, compress, maxSize>>
output == <<outFile, writes, stdout, stderr>>
comp == <<quality, encodes, history>>
remote == <<remoteCalls, willReturn, outcome, raised>>
vars == <<argApiKey, envApiKey, inputArgs, compress, maxSize, pc, clock,
          inputImages, remoteCalls, willReturn, outcome, raised, image,
          quality, encodes, history, outFile, writes, stdout, stderr, exitStatus,
          exitCause>>

\* ------------------------------------------------------------ helpers

\* int(x): truncation toward zero of the float num / den
IntTrunc(num, den) ==
    IF num >= 0 THEN num \div den ELSE -((-num) \div den)

\* max_bytes = int(max_size_mb * 1024 * 1024)
MaxBytes(max_size) == IntTrunc(max_size.tenths * MB, MAX_SIZE_DENOM)

\* image.save(buffer, format="PNG", optimize=True); buffer.tell().
\* The quality of the loop is not passed to the encoder.
PngEncode(img, q) == [pixels |-> img.pixels, size |-> PngSizes[img.pixels]]

\* mutant of PILOpen: the reopened image encodes to the next larger size
PILOpen_regrown(buffer) ==
    [pixels |-> IF buffer.pixels < Len(PngSizes)
                THEN buffer.pixels + 1 ELSE buffer.pixels,
     ok |-> TRUE]

\* PILImage.open(buffer) of a PNG just written: lossless, and it decodes
PILOpen(buffer) == [pixels |-> buffer.pixels, ok |-> TRUE]

\* mutant of Fits: strict comparison
Fits_strict(size, max_bytes) == size < max_bytes

\* buffer.tell() <= max_bytes
Fits(size, max_bytes) == size <= max_bytes

\* mutant of LoopGuard: the loop runs down to quality 0
LoopGuard_to_zero(q) == q >= 0

\* while quality >= 10
LoopGuard(q) == q >= MIN_QUALITY

\* the process is running and the alarm has not come due
Running == exitStatus = -1 /\ clock < TIMEOUT

\* sys.exit(code) / uncaught exception / return from main
Exit(status, cause) ==
    /\ pc' = "exited"
    /\ exitStatus' = status
    /\ exitCause' = cause

\* ------------------------------------------------------------ initial state

InitCommon ==
    /\ clock = 0
    /\ inputImages = 0
    /\ remoteCalls = 0
    /\ willReturn = TRUE
    /\ outcome = "none"
    /\ raised = "none"
    /\ quality = START_QUALITY
    /\ encodes = 0
    /\ history = <<>>
    /\ outFile = "absent"
    /\ writes = 0
    /\ stdout = <<>>
    /\ stderr = <<>>
    /\ exitStatus = -1
    /\ exitCause = "none"

\* The process right after the module-level signal.alarm(60)
Init ==
    /\ argApiKey \in BOOLEAN
    /\ envApiKey \in BOOLEAN
    /\ inputArgs \in ValidInputArgs
    /\ compress \in BOOLEAN
    /\ maxSize \in {Finite(10), Finite(DEFAULT_MAX_SIZE), NonFinite}
    /\ pc = "get_api_key"
    /\ image = NoImage
    /\ InitCommon

\* ------------------------------------------------------------ watchdog

\* one second passes
Tick ==
    /\ exitStatus = -1
    /\ clock < TIMEOUT
    /\ clock' = clock + 1
    /\ UNCHANGED <<args, pc, inputImages, remoteCalls, willReturn, outcome,
                   raised, image, comp, output, exitStatus, exitCause>>

\* mutant of timeout_handler: the handler raises an Exception, which main's
\* try intercepts and turns into the placeholder
timeout_handler_caught ==
    /\ exitStatus = -1
    /\ clock = TIMEOUT
    /\ stderr' = stderr \o <<"timeout", "error", "generating_placeholder">>
    /\ outFile' = "placeholder"
    /\ writes' = writes + 1
    /\ stdout' = Append(stdout, "placeholder")
    /\ Exit(0, "return")
    /\ UNCHANGED <<args, clock, inputImages, remote, image, comp>>

\* timeout_handler: SIGALRM is delivered, the handler prints and raises
\* SystemExit(1), which no "except Exception" intercepts
timeout_handler ==
    /\ exitStatus = -1
    /\ clock = TIMEOUT
    /\ stderr' = Append(stderr, "timeout")
    /\ Exit(1, "timeout")
    /\ UNCHANGED <<args, clock, inputImages, remoteCalls, willReturn, outcome,
                   raised, image, comp, outFile, writes, stdout>>

\* ------------------------------------------------------------ main

\* get_api_key
get_api_key ==
    /\ Running
    /\ pc = "get_api_key"
    /\ IF argApiKey \/ envApiKey
       THEN /\ pc' = "load_input_images"
            /\ UNCHANGED <<stderr, exitStatus, exitCause>>
       ELSE /\ stderr' = Append(stderr, "no_api_key")
            /\ Exit(1, "sysexit")
    /\ UNCHANGED <<args, clock, inputImages, remoteCalls, willReturn, outcome,
                   raised, image, comp, outFile, writes, stdout>>

\* if args.input_images: input_images = load_input_images(...)
load_input_images ==
    /\ Running
    /\ pc = "load_input_images"
    /\ IF inputArgs.badAt = 0
       THEN /\ inputImages' = inputArgs.n
            /\ pc' = "announce"
            /\ UNCHANGED <<stderr, exitStatus, exitCause>>
       ELSE IF inputArgs.badKind = "missing"
       THEN /\ stderr' = Append(stderr, "input_not_found")
            /\ Exit(1, "sysexit")
            /\ UNCHANGED inputImages
       ELSE \* PILImage.open raises outside main's try
            /\ stderr' = Append(stderr, "traceback")
            /\ Exit(1, "traceback")
            /\ UNCHANGED inputImages
    /\ UNCHANGED <<args, clock, remoteCalls, willReturn, outcome, raised, image, comp,
                   outFile, writes, stdout>>

\* the two progress prints and output_path.parent.mkdir
announce ==
    /\ Running
    /\ pc = "announce"
    /\ stdout' = IF inputImages > 0
                 THEN stdout \o <<"generating", "using_inputs">>
                 ELSE Append(stdout, "generating")
    /\ pc' = "generate_image"
    /\ UNCHANGED <<args, clock, inputImages, remoteCalls, willReturn, outcome,
                   raised, image, comp, outFile, writes, stderr, exitStatus, exitCause>>

\* mutant of generate_image_call: the limit is checked off by one
generate_image_call_off_by_one ==
    /\ Running
    /\ pc = "generate_image"
    /\ IF inputImages > MAX_INPUT_IMAGES + 1
       THEN /\ stderr' = Append(stderr, "max_inputs")
            /\ Exit(1, "sysexit")
            /\ UNCHANGED <<remoteCalls, willReturn>>
       ELSE /\ remoteCalls' = remoteCalls + 1
            /\ willReturn' \in BOOLEAN
            /\ pc' = "awaiting"
            /\ UNCHANGED <<stderr, exitStatus, exitCause>>
    /\ UNCHANGED <<args, clock, inputImages, outcome, raised, image, comp,
                   outFile, writes, stdout>>

\* generate_image up to the call of client.models.generate_images
generate_image_call ==
    /\ Running
    /\ pc = "generate_image"
    /\ IF inputImages > MAX_INPUT_IMAGES
       THEN /\ stderr' = Append(stderr, "max_inputs")
            /\ Exit(1, "sysexit")
            /\ UNCHANGED <<remoteCalls, willReturn>>
       ELSE /\ remoteCalls' = remoteCalls + 1
            /\ willReturn' \in BOOLEAN
            /\ pc' = "awaiting"
            /\ UNCHANGED <<stderr, exitStatus, exitCause>>
    /\ UNCHANGED <<args, clock, inputImages, outcome, raised, image, comp, outFile,
                   writes, stdout>>

\* mutant of generate_image_return: a failed call is retried once
generate_image_return_retry ==
    /\ Running
    /\ pc = "awaiting"
    /\ willReturn
    /\ \E o \in {"ok", "error"} :
        /\ outcome' = o
        /\ IF o = "ok"
           THEN /\ image' \in [pixels : {1, 4}, ok : BOOLEAN]
                /\ pc' = "after_generate"
                /\ UNCHANGED raised
           ELSE IF remoteCalls < 2
           THEN /\ pc' = "generate_image"
                /\ UNCHANGED <<image, raised>>
           ELSE /\ pc' = "except"
                /\ raised' = "generate"
                /\ UNCHANGED image
    /\ UNCHANGED <<args, clock, inputImages, remoteCalls, willReturn, comp,
                   output, exitStatus, exitCause>>

\* the remote call returns or raises, and generate_image runs to its end
generate_image_return ==
    /\ Running
    /\ pc = "awaiting"
    /\ willReturn
    /\ \E o \in {"ok", "empty", "error", "garbage"} :
        /\ outcome' = o
        /\ IF o = "ok"
           THEN /\ image' \in [pixels : {1, 4}, ok : BOOLEAN]
                /\ pc' = "after_generate"
                /\ UNCHANGED <<raised, stderr, exitStatus, exitCause>>
           ELSE IF o = "empty"
           THEN \* sys.exit(1) inside the try: SystemExit is not an Exception
                /\ stderr' = Append(stderr, "no_image_generated")
                /\ Exit(1, "sysexit")
                /\ UNCHANGED <<image, raised>>
           ELSE \* the SDK raises, or PILImage.open cannot identify the bytes
                /\ pc' = "except"
                /\ raised' = "generate"
                /\ UNCHANGED <<image, stderr, exitStatus, exitCause>>
    /\ UNCHANGED <<args, clock, inputImages, remoteCalls, willReturn, comp,
                   outFile, writes, stdout>>

\* if args.compress: image = compress_image(image, args.max_size)
main_compress ==
    /\ Running
    /\ pc = "after_generate"
    /\ IF compress
       THEN pc' = "compress_image"
       ELSE pc' = "save"
    /\ UNCHANGED <<args, clock, inputImages, remote, image, comp, output,
                   exitStatus, exitCause>>

\* ------------------------------------------------------------ compress_image

\* entry of compress_image: max_bytes = int(...), which raises ValueError or
\* OverflowError on nan and inf; quality = 95
compress_image_enter ==
    /\ Running
    /\ pc = "compress_image"
    /\ encodes' = 0
    /\ IF maxSize.finite
       THEN /\ quality' = START_QUALITY
            /\ pc' = "compress_loop"
            /\ UNCHANGED raised
       ELSE /\ pc' = "except"
            /\ raised' = "compress"
            /\ UNCHANGED quality
    /\ UNCHANGED <<args, clock, inputImages, remoteCalls, willReturn, outcome,
                   image, history, output, exitStatus, exitCause>>

\* one pass of "while quality >= 10": encode, return if it fits, else
\* lower the quality
compress_image_loop ==
    /\ Running
    /\ pc = "compress_loop"
    /\ LoopGuard(quality)
    /\ IF ~image.ok
       THEN \* image.save(buffer, ...) raises
            /\ encodes' = encodes + 1
            /\ pc' = "except"
            /\ raised' = "compress"
            /\ UNCHANGED <<image, quality, history>>
       ELSE LET buffer == PngEncode(image, quality) IN
            /\ UNCHANGED raised
            /\ encodes' = encodes + 1
            /\ IF Fits(buffer.size, MaxBytes(maxSize))
               THEN /\ image' = PILOpen(buffer)
                    /\ history' = Append(history,
                           [via |-> "loop", quality |-> quality,
                            encodes |-> encodes + 1, input |-> image,
                            size |-> buffer.size])
                    /\ pc' = "save"
                    /\ UNCHANGED quality
               ELSE /\ quality' = quality - QUALITY_STEP
                    /\ UNCHANGED <<image, history, pc>>
    /\ UNCHANGED <<args, clock, inputImages, remoteCalls, willReturn, outcome,
                   output, exitStatus, exitCause>>

\* after the loop: encode once more and return that unconditionally
compress_image_fallback ==
    /\ Running
    /\ pc = "compress_loop"
    /\ ~LoopGuard(quality)
    /\ LET buffer == PngEncode(image, quality) IN
        /\ encodes' = encodes + 1
        /\ image' = PILOpen(buffer)
        /\ history' = Append(history,
               [via |-> "fallback", quality |-> quality,
                encodes |-> encodes + 1, input |-> image,
                size |-> buffer.size])
        /\ pc' = "save"
    /\ UNCHANGED <<args, clock, inputImages, remoteCalls, willReturn, outcome,
                   raised, quality, output, exitStatus, exitCause>>

\* ------------------------------------------------------------ main, continued

\* mutant of save_image: a failed save is not noticed
save_image_swallow ==
    /\ Running
    /\ pc = "save"
    /\ IF image.ok
       THEN /\ outFile' = "image"
            /\ writes' = writes + 1
       ELSE UNCHANGED <<outFile, writes>>
    /\ pc' = "print_saved"
    /\ UNCHANGED <<args, clock, inputImages, remote, image, comp, stdout,
                   stderr, exitStatus, exitCause>>

\* image.save(output_path, format="PNG")
save_image ==
    /\ Running
    /\ pc = "save"
    /\ IF image.ok
       THEN /\ outFile' = "image"
            /\ writes' = writes + 1
            /\ pc' = "print_saved"
            /\ UNCHANGED raised
       ELSE \* the save raises; Pillow removes the file it created
            /\ pc' = "except"
            /\ raised' = "save"
            /\ UNCHANGED <<outFile, writes>>
    /\ UNCHANGED <<args, clock, inputImages, remoteCalls, willReturn, outcome,
                   image, comp, stdout, stderr, exitStatus, exitCause>>

\* print(f"Image saved to: ..."), and main returns
print_saved ==
    /\ Running
    /\ pc = "print_saved"
    /\ stdout' = Append(stdout, "saved")
    /\ Exit(0, "return")
    /\ UNCHANGED <<args, clock, inputImages, remoteCalls, willReturn, outcome,
                   raised, image, comp, outFile, writes, stderr>>

\* mutant of except_handler: the exception is not intercepted
except_handler_reraise ==
    /\ Running
    /\ pc = "except"
    /\ stderr' = Append(stderr, "traceback")
    /\ Exit(1, "traceback")
    /\ UNCHANGED <<args, clock, inputImages, remote, image, comp, outFile,
                   writes, stdout>>

\* except Exception as e: the two diagnostics and create_error_image
except_handler ==
    /\ Running
    /\ pc = "except"
    /\ stderr' = stderr \o <<"error", "generating_placeholder">>
    /\ pc' = "save_placeholder"
    /\ UNCHANGED <<args, clock, inputImages, remoteCalls, willReturn, outcome,
                   raised, image, comp, outFile, writes, stdout, exitStatus, exitCause>>

\* error_img.save(output_path, format="PNG")
save_placeholder ==
    /\ Running
    /\ pc = "save_placeholder"
    /\ outFile' = "placeholder"
    /\ writes' = writes + 1
    /\ pc' = "print_placeholder"
    /\ UNCHANGED <<args, clock, inputImages, remoteCalls, willReturn, outcome,
                   raised, image, comp, stdout, stderr, exitStatus, exitCause>>

\* print(f"Error placeholder saved to: ..."), and main returns
print_placeholder ==
    /\ Running
    /\ pc = "print_placeholder"
    /\ stdout' = Append(stdout, "placeholder")
    /\ Exit(0, "return")
    /\ UNCHANGED <<args, clock, inputImages, remoteCalls, willReturn, outcome,
                   raised, image, comp, outFile, writes, stderr>>

Next ==
    \/ Tick
    \/ timeout_handler
    \/ get_api_key
    \/ load_input_images
    \/ announce
    \/ generate_image_call
    \/ generate_image_return
    \/ main_compress
    \/ compress_image_enter
    \/ compress_image_loop
    \/ compress_image_fallback
    \/ save_image
    \/ print_saved
    \/ except_handler
    \/ save_placeholder
    \/ print_placeholder

Spec == Init /\ [][Next]_vars

\* time passes and a due alarm is delivered; nothing makes the remote
\* service answer
FairSpec == Spec /\ WF_vars(Tick) /\ WF_vars(timeout_handler)

\* ------------------------------------------------------------ compress_image alone

\* compress_image(image, max_size_mb) called on any image with any limit
InitCompress ==
    /\ argApiKey = TRUE
    /\ envApiKey = FALSE
    /\ inputArgs = [n |-> 0, badAt |-> 0, badKind |-> "missing"]
    /\ compress = TRUE
    /\ maxSize \in MaxSizes
    /\ pc = "compress_image"
    /\ image \in Images
    /\ InitCommon

\* compress_image applied again, with the same limit, to what it returned
compress_again ==
    /\ pc = "save"
    /\ Len(history) < 2
    /\ pc' = "compress_image"
    /\ UNCHANGED <<args, clock, inputImages, remote, image, comp, output,
                   exitStatus, exitCause>>

NextCompress ==
    \/ compress_image_enter
    \/ compress_image_loop
    \/ compress_image_fallback
    \/ compress_again

CompressSpec ==
    InitCompress /\ [][NextCompress]_vars /\ WF_vars(NextCompress)

\* ------------------------------------------------------------ vocabulary

Printed(stream, line) == \E i \in 1..Len(stream) : stream[i] = line

Exited == pc = "exited"
TimedOut == exitCause = "timeout"

\* the remote call raised, or what it returned could not be opened
RemoteRaised == outcome \in {"error", "garbage"}

\* the three pre-flight failures, as properties of the command line
NoApiKey == ~argApiKey /\ ~envApiKey
MissingInput == inputArgs.badAt > 0 /\ inputArgs.badKind = "missing"
TooManyInputs == inputArgs.n > MAX_INPUT_IMAGES

\* the quality levels of the search, 95 down to 10 in steps of 5
Levels ==
    { q \in MIN_QUALITY..START_QUALITY :
        (START_QUALITY - q) % QUALITY_STEP = 0 }

\* an encoding of `size` bytes is within max_size_mb * 1024^2 bytes
WithinLimit(size) == size * MAX_SIZE_DENOM <= maxSize.tenths * MB

\* the levels at which the encoding of img is within the limit
FittingLevels(img) == { q \in Levels : WithinLimit(PngEncode(img, q).size) }

Highest(S) == CHOOSE q \in S : \A r \in S : r <= q
Lowest(S) == CHOOSE q \in S : \A r \in S : q <= r

\* ------------------------------------------------------------ C1

\* C1 as stated: in a run that passed pre-flight and whose remote call raised, the
\* process does not crash, the placeholder is at the output path, the
\* placeholder line is printed and the success line is not.
C1_AsStated ==
    (Exited /\ RemoteRaised) =>
        /\ exitCause = "return"
        /\ outFile = "placeholder"
        /\ Printed(stdout, "placeholder")
        /\ ~Printed(stdout, "saved")

\* C1 amended: once the remote call has raised, the success line is never
\* printed and the error never ends the process as an uncaught exception; and
\* unless the 60 s watchdog ends the run first, the run ends by returning from
\* main with the placeholder at the output path and the placeholder line printed.
C1_PlaceholderUnlessTimeout ==
    RemoteRaised =>
        /\ ~Printed(stdout, "saved")
        /\ exitCause \in {"none", "return", "timeout"}
        /\ (Exited /\ ~TimedOut) =>
              /\ exitCause = "return"
              /\ outFile = "placeholder"
              /\ writes = 1
              /\ stdout[Len(stdout)] = "placeholder"

C1_Witness ==
    /\ Exited
    /\ outcome = "error"
    /\ exitCause = "return"
    /\ outFile = "placeholder"
    /\ Printed(stdout, "placeholder")

\* ------------------------------------------------------------ C2

\* C2: a run that ends on the placeholder path (the remote call failed, the
\* placeholder was written and reported) ends with a non-zero exit status.
C2_PlaceholderExitsNonZero ==
    (Exited /\ RemoteRaised /\ outFile = "placeholder"
        /\ Printed(stdout, "placeholder")) => exitStatus /= 0

\* ------------------------------------------------------------ C3

\* C3: when the remote call returns an empty result set, the process ends
\* with a placeholder written at the output path.
C3_EmptyResultGetsPlaceholder ==
    (Exited /\ outcome = "empty") => (outFile = "placeholder" /\ writes >= 1)

\* ------------------------------------------------------------ C4

\* C4: with no API key, a missing input image or more than 14 input images,
\* no remote call is ever issued, nothing is ever written at the output path,
\* and the process ends with a non-zero exit status.
C4_PreflightFailure ==
    (NoApiKey \/ MissingInput \/ TooManyInputs) =>
        /\ remoteCalls = 0
        /\ writes = 0
        /\ outFile = "absent"
        /\ pc \notin {"awaiting", "after_generate", "compress_image",
                      "compress_loop", "save",
                      "print_saved", "except", "save_placeholder",
                      "print_placeholder"}
        /\ Exited => exitStatus /= 0

C4_Witness ==
    /\ Exited
    /\ ~NoApiKey
    /\ inputArgs.badAt = 0
    /\ TooManyInputs
    /\ exitCause = "sysexit"
    /\ Printed(stderr, "max_inputs")

\* ------------------------------------------------------------ C5

\* the 18 passes of the loop and the encode after it
MaxEncodes == Cardinality(Levels) + 1

\* C5 as stated: compress_image performs at most 18 encode attempts.
C5_AtMost18Encodes == encodes <= Cardinality(Levels)

\* C5 amended: compress_image terminates and performs at most 19 encode
\* attempts: one per quality level from 95 down to 10, and one more after
\* the loop when no level fits.
C5_TerminatesWithin19 ==
    /\ [](encodes <= MaxEncodes)
    /\ [](pc = "compress_loop" => encodes = (START_QUALITY - quality) \div QUALITY_STEP)
    /\ (pc \in {"compress_image", "compress_loop"})
          ~> (pc \notin {"compress_image", "compress_loop"})

C5_Witness ==
    /\ Len(history) >= 1
    /\ history[1].via = "fallback"
    /\ history[1].encodes = MaxEncodes

\* ------------------------------------------------------------ C6

C7_HungCallTimesOut ==
    /\ []((pc = "awaiting" /\ ~willReturn) => clock <= TIMEOUT /\ ~Exited)
    /\ []((Exited /\ ~willReturn) =>
            /\ TimedOut
            /\ exitStatus = 1
            /\ clock = TIMEOUT
            /\ stderr[Len(stderr)] = "timeout"
            /\ ~Printed(stdout, "saved")
            /\ ~Printed(stdout, "placeholder")
            /\ ~Printed(stderr, "generating_placeholder")
            /\ outFile = "absent"
            /\ writes = 0)
    /\ (~willReturn) ~> (Exited /\ TimedOut)

C7_Witness ==
    /\ Exited
    /\ ~willReturn
    /\ remoteCalls = 1
    /\ TimedOut

\* ------------------------------------------------------------ C8

\* C8: the remote endpoint is called at most once in a run, and a run whose
\* success line is printed called it exactly once and wrote exactly one
\* file, the generated image, at the output path.
C8_SingleCallSingleWrite ==
    /\ remoteCalls <= 1
    /\ Printed(stdout, "saved") =>
          /\ remoteCalls = 1
          /\ writes = 1
          /\ outFile = "image"

C8_Witness ==
    /\ Exited
    /\ exitCause = "return"
    /\ Printed(stdout, "saved")
    /\ remoteCalls = 1

\* ------------------------------------------------------------ C9

FinishingRaised == raised \in {"compress", "save"}

\* at most one status line, each only after a completed write of its file
StatusLinesFollowWrites ==
    /\ ~(Printed(stdout, "saved") /\ Printed(stdout, "placeholder"))
    /\ Printed(stdout, "saved") => (writes >= 1 /\ outFile = "image")
    /\ Printed(stdout, "placeholder") => (writes >= 1 /\ outFile = "placeholder")

\* C10 as stated: at most one of the two status lines is printed, each only after
\* a write to the output path has completed; and a run in which generation
\* succeeded but compressing or saving the image raised ends with the
\* placeholder at the output path and only the placeholder line printed.
C10_AsStated ==
    /\ StatusLinesFollowWrites
    /\ (Exited /\ outcome = "ok" /\ FinishingRaised) =>
          /\ outFile = "placeholder"
          /\ Printed(stdout, "placeholder")
          /\ ~Printed(stdout, "saved")

\* C10 amended: at most one of the two status lines is printed, each only
\* after a write to the output path has completed; and a run in which
\* generation succeeded but compressing or saving the image raised never
\* prints the success line and, unless the 60 s watchdog ends it first, ends
\* with the placeholder at the output path and the placeholder line printed.
C10_StatusLinesUnlessTimeout ==
    /\ StatusLinesFollowWrites
    /\ (outcome = "ok" /\ FinishingRaised) =>
          /\ ~Printed(stdout, "saved")
          /\ (Exited /\ ~TimedOut) =>
                /\ outFile = "placeholder"
                /\ writes = 1
                /\ Printed(stdout, "placeholder")

C10_Witness ==
    /\ Exited
    /\ outcome = "ok"
    /\ raised = "save"
    /\ outFile = "placeholder"
    /\ Printed(stdout, "placeholder")

=============================================================================
